---- MODULE Spec2Model ----
(***************************************************************************)
(* State-machine model of the EventHive backend (src/backend/server.py):   *)
(* the users, events and registrations collections of the document store,  *)
(* the stateless JWT bearer tokens, and the request handlers, each split   *)
(* at its awaited store round trips (find_one, insert_one, update_one,     *)
(* delete_one, delete_many), which are the atomic steps.                   *)
(*                                                                         *)
(* A request's arrival is merged with its first store round trip: the      *)
(* dependency (get_current_user / require_auth) and the code before the    *)
(* first await run without yielding to another handler.                    *)
(***************************************************************************)
EXTENDS Integers, Sequences, FiniteSets, TLC

VARIABLES
    users,          \* db.users: set of User documents
    events,         \* db.events: set of Event ids (no handler reads another field)
    registrations,  \* db.registrations: set of Registration documents
    nextUser,       \* number of User ids drawn so far (uuid4: always fresh)
    nextEvent,      \* number of Event ids drawn so far
    nextReg,        \* number of Registration ids drawn so far
    clock,          \* datetime.now(timezone.utc), in ticks
    wallet,         \* the tokens clients hold: each user's latest, with its issue time
    rq,             \* per worker: the request in flight (its parameters and locals)
    last            \* the last response sent, with the request it answers

vars == <<users, events, registrations, nextUser, nextEvent, nextReg, clock, wallet, rq, last>>

(***************************** bounds **************************************)
MaxUsers == 2           \* User ids that may be drawn
MaxEvents == 2          \* Event ids that may be drawn
MaxRegs == 2            \* Registration ids that may be drawn
MaxTicks == 2           \* how far past a whole token lifetime the clock runs
MaxLifetimes == 1       \* whole token lifetimes the clock runs through
TicksPerSecond == 2     \* clock resolution: datetime.now() is finer than the second

Procs == {1, 2}          \* the workers: requests that run concurrently
Emails == {"a@x.com", "b@x.com"}
Names == {"Ann", "Bob"}
Passwords == {"pw1", "pw2"}
Salts == {"s1", "s2"}

None == "None"          \* Python's None / an absent field
NoUser == 0             \* user_id: Optional[str] = None, and get_current_user's None

(**************************** token service ********************************)
JWT_SECRET == "secret"
JWT_ALGORITHM == "HS256"
JWT_EXPIRATION_HOURS == 24

\* timedelta(hours=JWT_EXPIRATION_HOURS), in ticks
TokenLifetime == JWT_EXPIRATION_HOURS * 3600 * TicksPerSecond

\* HMAC over the payload with the server's secret
Sign(user_id, email, exp) == <<JWT_ALGORITHM, JWT_SECRET, user_id, email, exp>>

\* jwt.encode turns the datetime 'exp' into whole seconds (timegm: truncation)
create_token(user_id, email, now) ==
    LET exp == (now + TokenLifetime) \div TicksPerSecond
    IN  [user_id |-> user_id, email |-> email, exp |-> exp,
         sig |-> Sign(user_id, email, exp)]

\* A presented token whose signature segment was altered
Tamper(tok) == [tok EXCEPT !.sig = <<"altered">>]

\* (mutant) exp is checked before the signature
decode_token_expiry_first(tok, now) ==
    IF tok.exp * TicksPerSecond <= now
    THEN [ok |-> FALSE, status |-> 401, detail |-> "Token has expired"]
    ELSE IF tok.sig # Sign(tok.user_id, tok.email, tok.exp)
    THEN [ok |-> FALSE, status |-> 401, detail |-> "Invalid token"]
    ELSE [ok |-> TRUE, status |-> 200, detail |-> "",
          user_id |-> tok.user_id, email |-> tok.email, exp |-> tok.exp]

\* jwt.decode: the signature is verified first, then exp against the current
\* time (expired when exp <= now); the two except clauses give the two details.
decode_token(tok, now) ==
    IF tok.sig # Sign(tok.user_id, tok.email, tok.exp)
    THEN [ok |-> FALSE, status |-> 401, detail |-> "Invalid token"]
    ELSE IF tok.exp * TicksPerSecond <= now
    THEN [ok |-> FALSE, status |-> 401, detail |-> "Token has expired"]
    ELSE [ok |-> TRUE, status |-> 200, detail |-> "",
          user_id |-> tok.user_id, email |-> tok.email, exp |-> tok.exp]

\* HTTPBearer(auto_error=False): no Authorization header gives no credentials
NoCred == [user_id |-> NoUser, email |-> None, exp |-> 0, sig |-> <<>>]

\* (mutant) the token's user_id without decoding it
get_current_user_unchecked(cred, now) ==
    IF cred = NoCred THEN NoUser ELSE cred.user_id

\* get_current_user: None (NoUser) without credentials or on any HTTPException
get_current_user(cred, now) ==
    IF cred = NoCred THEN NoUser
    ELSE IF decode_token(cred, now).ok THEN decode_token(cred, now).user_id
    ELSE NoUser

\* (mutant) require_auth that swallows decode_token's HTTPException
require_auth_lenient(cred, now) ==
    IF cred = NoCred
    THEN [ok |-> FALSE, status |-> 401, detail |-> "Authentication required"]
    ELSE [ok |-> TRUE, status |-> 200, detail |-> "",
          user_id |-> cred.user_id, email |-> cred.email, exp |-> cred.exp]

\* require_auth: 401 without credentials, else decode_token's result
require_auth(cred, now) ==
    IF cred = NoCred
    THEN [ok |-> FALSE, status |-> 401, detail |-> "Authentication required"]
    ELSE decode_token(cred, now)

(**************************** password hasher ******************************)
\* bcrypt: the hash string embeds the salt and the digest of (salt, password)
Digest(salt, password) == <<salt, password>>

hash_password(password, salt) == [salt |-> salt, digest |-> Digest(salt, password)]

verify_password(password, hashed) == Digest(hashed.salt, password) = hashed.digest

(**************************** requests *************************************)
\* A request: the handler (op), where it stands (pc: "done" when answered or
\* when the worker is free), its parameters and locals, and its response.
Idle ==
    [op |-> "none", pc |-> "done", status |-> 0, cred |-> NoCred, uid |-> NoUser,
     email |-> None, name |-> None, pw |-> None, eid |-> 0, rid |-> 0,
     todo |-> {}, out |-> None]

\* the response: the HTTP status and the body
Respond(r, status, out) == [r EXCEPT !.pc = "done", !.status = status, !.out = out]

\* the handler goes on to its next store round trip
Goto(r, pc) == [r EXCEPT !.pc = pc]

\* worker p's request becomes r: answered (the worker is free again), or waiting
\* for its next store round trip
Step(p, r) ==
    IF r.pc = "done"
    THEN rq' = [rq EXCEPT ![p] = Idle] /\ last' = r
    ELSE rq' = [rq EXCEPT ![p] = r] /\ UNCHANGED last

Ready(p) == rq[p].pc = "done"

InFlight(pc) == Cardinality({q \in Procs : rq[q].pc = pc})

\* the client of user_id keeps the token it was just given
Issue(tok, now) ==
    {w \in wallet : w.tok.user_id # tok.user_id} \cup {[tok |-> tok, at |-> now]}

\* the credentials a client can present: none, a token it holds, or such a
\* token with its signature altered
Credentials == {NoCred} \cup {w.tok : w \in wallet} \cup {Tamper(w.tok) : w \in wallet}

UserResponse(u, tok) == [id |-> u.id, email |-> u.email, name |-> u.name, token |-> tok]

\* projection {"_id": 0, "password_hash": 0}
Profile(u) == [id |-> u.id, email |-> u.email, name |-> u.name, created_at |-> u.created_at]

(**************************** user auth routes *****************************)
\* signup, lines 156-158: find_one by email; 400 when it exists
SignupFind(p, email, name, password) ==
    /\ Ready(p)
    /\ nextUser + InFlight("signup_insert") < MaxUsers
    /\ LET r == [Idle EXCEPT !.op = "signup", !.email = email, !.name = name, !.pw = password]
       IN  Step(p, IF \E u \in users : u.email = email
                   THEN Respond(r, 400, "Email already registered")
                   ELSE Goto(r, "signup_insert"))
    /\ UNCHANGED <<users, events, registrations, nextUser, nextEvent, nextReg, clock, wallet>>

\* signup, lines 160-178: build the User (fresh id, fresh salt), insert_one,
\* create the token, answer
SignupInsert(p, salt) ==
    /\ rq[p].pc = "signup_insert"
    /\ LET u == [id |-> nextUser + 1, email |-> rq[p].email, name |-> rq[p].name,
                 password_hash |-> hash_password(rq[p].pw, salt), created_at |-> clock]
           tok == create_token(u.id, u.email, clock)
       IN  /\ users' = users \cup {u}
           /\ nextUser' = nextUser + 1
           /\ wallet' = Issue(tok, clock)
           /\ Step(p, Respond(rq[p], 200, UserResponse(u, tok)))
    /\ UNCHANGED <<events, registrations, nextEvent, nextReg, clock>>

\* (mutant) the password is not checked
LoginResultUnverified(r, match, password, now) ==
    IF match = {}
    THEN Respond(r, 401, "Invalid credentials")
    ELSE LET u == CHOOSE u \in match : TRUE
         IN  Respond(r, 200, UserResponse(u, create_token(u.id, u.email, now)))

\* what login answers when find_one returned the documents of 'match' (one
\* document, or none): line 184's test, then lines 187-194
LoginResult(r, match, password, now) ==
    IF match = {} \/ \A u \in match : ~verify_password(password, u.password_hash)
    THEN Respond(r, 401, "Invalid credentials")
    ELSE LET u == CHOOSE u \in match : TRUE
         IN  Respond(r, 200, UserResponse(u, create_token(u.id, u.email, now)))

\* login, lines 183-194: one find_one by email (any one of the matching
\* documents), then the password check
Login(p, email, password) ==
    /\ Ready(p)
    /\ LET r == [Idle EXCEPT !.op = "login", !.email = email, !.pw = password]
           found == {u \in users : u.email = email}
       IN  \E match \in (IF found = {} THEN {{}} ELSE {{u} : u \in found}) :
              LET res == LoginResult(r, match, password, clock)
              IN  /\ Step(p, res)
                  /\ wallet' = IF res.status = 200 THEN Issue(res.out.token, clock)
                               ELSE wallet
    /\ UNCHANGED <<users, events, registrations, nextUser, nextEvent, nextReg, clock>>

\* get_me, lines 197-202
GetMe(p, cred) ==
    /\ Ready(p)
    /\ LET r == [Idle EXCEPT !.op = "get_me", !.cred = cred]
           auth == require_auth(cred, clock)
       IN  Step(p, IF ~auth.ok THEN Respond(r, auth.status, auth.detail)
                   ELSE LET found == {u \in users : u.id = auth.user_id}
                            ru == [r EXCEPT !.uid = auth.user_id]
                        IN  IF found = {} THEN Respond(ru, 404, "User not found")
                            ELSE Respond(ru, 200, Profile(CHOOSE u \in found : TRUE)))
    /\ UNCHANGED <<users, events, registrations, nextUser, nextEvent, nextReg, clock, wallet>>

\* a $set of both fields, present in the patch or not
SetFieldsAll(u, name, email) ==
    [u EXCEPT !.name = name, !.email = email]

\* update_one({"id": uid}, {"$set": update_data}): the fields the patch holds
SetFields(u, name, email) ==
    [u EXCEPT !.name = IF name = None THEN @ ELSE name,
              !.email = IF email = None THEN @ ELSE email]

update_one_user(uid, name, email) ==
    {IF u.id = uid THEN SetFields(u, name, email) ELSE u : u \in users}

\* update_profile from its start to its first store round trip: the empty
\* patch (lines 207-210), then either the find_one of another user holding the
\* patch's email (lines 213-216), or, without an email, the update_one (line 218)
UpdateProfileStart(p, cred, name, email) ==
    /\ Ready(p)
    /\ LET r == [Idle EXCEPT !.op = "update_profile", !.cred = cred,
                             !.name = name, !.email = email]
           auth == require_auth(cred, clock)
           ru == [r EXCEPT !.uid = IF auth.ok THEN auth.user_id ELSE NoUser]
       IN  IF ~auth.ok
           THEN Step(p, Respond(r, auth.status, auth.detail)) /\ UNCHANGED users
           ELSE IF name = None /\ email = None
           THEN Step(p, Respond(ru, 400, "No data to update")) /\ UNCHANGED users
           ELSE IF email # None
           THEN /\ Step(p, IF \E u \in users : u.email = email /\ u.id # ru.uid
                           THEN Respond(ru, 400, "Email already in use")
                           ELSE Goto(ru, "update_profile_update"))
                /\ UNCHANGED users
           ELSE /\ users' = update_one_user(ru.uid, name, email)
                /\ Step(p, Goto(ru, "update_profile_read"))
    /\ UNCHANGED <<events, registrations, nextUser, nextEvent, nextReg, clock, wallet>>

\* update_profile, line 218, after the email check
UpdateProfileUpdate(p) ==
    /\ rq[p].pc = "update_profile_update"
    /\ users' = update_one_user(rq[p].uid, rq[p].name, rq[p].email)
    /\ Step(p, Goto(rq[p], "update_profile_read"))
    /\ UNCHANGED <<events, registrations, nextUser, nextEvent, nextReg, clock, wallet>>

\* update_profile, lines 220-221: read the user back and return it
UpdateProfileRead(p) ==
    /\ rq[p].pc = "update_profile_read"
    /\ LET found == {u \in users : u.id = rq[p].uid}
       IN  Step(p, Respond(rq[p], 200,
                           IF found = {} THEN None ELSE Profile(CHOOSE u \in found : TRUE)))
    /\ UNCHANGED <<users, events, registrations, nextUser, nextEvent, nextReg, clock, wallet>>

(**************************** events routes ********************************)
\* create_event, lines 251-254: insert_one of an Event with a fresh id
CreateEvent(p) ==
    /\ Ready(p)
    /\ nextEvent < MaxEvents
    /\ events' = events \cup {nextEvent + 1}
    /\ nextEvent' = nextEvent + 1
    /\ Step(p, Respond([Idle EXCEPT !.op = "create_event", !.eid = nextEvent + 1], 201, None))
    /\ UNCHANGED <<users, registrations, nextUser, nextReg, clock, wallet>>

\* get_event, lines 243-246
GetEvent(p, eid) ==
    /\ Ready(p)
    /\ LET r == [Idle EXCEPT !.op = "get_event", !.eid = eid]
       IN  Step(p, IF eid \in events THEN Respond(r, 200, None)
                   ELSE Respond(r, 404, "Event not found"))
    /\ UNCHANGED <<users, events, registrations, nextUser, nextEvent, nextReg, clock, wallet>>

\* delete_event, lines 273-275: delete_one; 404 when nothing was deleted
DeleteEventOne(p, eid) ==
    /\ Ready(p)
    /\ LET r == [Idle EXCEPT !.op = "delete_event", !.eid = eid]
       IN  IF eid \in events
           THEN events' = events \ {eid} /\ Step(p, Goto(r, "delete_event_many"))
           ELSE UNCHANGED events /\ Step(p, Respond(r, 404, "Event not found"))
    /\ UNCHANGED <<users, registrations, nextUser, nextEvent, nextReg, clock, wallet>>

\* (mutant) the cascade with an empty filter: every registration goes
DeleteEventManyUnfiltered(p) ==
    /\ rq[p].pc = "delete_event_many"
    /\ registrations' = {}
    /\ Step(p, Respond(rq[p], 200, "Event deleted successfully"))
    /\ UNCHANGED <<users, events, nextUser, nextEvent, nextReg, clock, wallet>>

\* delete_event, lines 277-279: delete_many of the event's registrations
DeleteEventMany(p) ==
    /\ rq[p].pc = "delete_event_many"
    /\ registrations' = {g \in registrations : g.event_id # rq[p].eid}
    /\ Step(p, Respond(rq[p], 200, "Event deleted successfully"))
    /\ UNCHANGED <<users, events, nextUser, nextEvent, nextReg, clock, wallet>>

(**************************** registration routes **************************)
\* (mutant) the duplicate check runs before the event check
RegisterFindDupFirst(p, cred, eid, name, email) ==
    /\ Ready(p)
    /\ eid \in events =>
         nextReg + InFlight("register_find_dup") + InFlight("register_insert") < MaxRegs
    /\ LET r == [Idle EXCEPT !.op = "register", !.cred = cred, !.eid = eid,
                             !.name = name, !.email = email,
                             !.uid = get_current_user(cred, clock)]
       IN  Step(p, IF \E g \in registrations : g.event_id = eid /\ g.email = email
                   THEN Respond(r, 400, "Already registered for this event")
                   ELSE IF eid \in events THEN Goto(r, "register_find_dup")
                   ELSE Respond(r, 404, "Event not found"))
    /\ UNCHANGED <<users, events, registrations, nextUser, nextEvent, nextReg, clock, wallet>>

\* register_for_event, lines 286-289: the optional identity, then find_one
\* of the event; 404 when it is missing
RegisterFindEvent(p, cred, eid, name, email) ==
    /\ Ready(p)
    /\ eid \in events =>
         nextReg + InFlight("register_find_dup") + InFlight("register_insert") < MaxRegs
    /\ LET r == [Idle EXCEPT !.op = "register", !.cred = cred, !.eid = eid,
                             !.name = name, !.email = email,
                             !.uid = get_current_user(cred, clock)]
       IN  Step(p, IF eid \in events THEN Goto(r, "register_find_dup")
                   ELSE Respond(r, 404, "Event not found"))
    /\ UNCHANGED <<users, events, registrations, nextUser, nextEvent, nextReg, clock, wallet>>

\* (mutant) the duplicate query also matches on the name
RegisterFindDupByName(p) ==
    /\ rq[p].pc = "register_find_dup"
    /\ Step(p, IF \E g \in registrations : /\ g.event_id = rq[p].eid
                                           /\ g.email = rq[p].email
                                           /\ g.name = rq[p].name
               THEN Respond(rq[p], 400, "Already registered for this event")
               ELSE Goto(rq[p], "register_insert"))
    /\ UNCHANGED <<users, events, registrations, nextUser, nextEvent, nextReg, clock, wallet>>

\* register_for_event, lines 291-298: find_one by (event_id, email); 400 on a match
RegisterFindDup(p) ==
    /\ rq[p].pc = "register_find_dup"
    /\ Step(p, IF \E g \in registrations : g.event_id = rq[p].eid /\ g.email = rq[p].email
               THEN Respond(rq[p], 400, "Already registered for this event")
               ELSE Goto(rq[p], "register_insert"))
    /\ UNCHANGED <<users, events, registrations, nextUser, nextEvent, nextReg, clock, wallet>>

\* register_for_event, lines 300-308: user_id from the identity when there is
\* one, a fresh id, insert_one
RegisterInsert(p) ==
    /\ rq[p].pc = "register_insert"
    /\ LET reg == [id |-> nextReg + 1, event_id |-> rq[p].eid, name |-> rq[p].name,
                   email |-> rq[p].email, user_id |-> rq[p].uid]
       IN  /\ registrations' = registrations \cup {reg}
           /\ Step(p, Respond([rq[p] EXCEPT !.rid = reg.id], 201, reg))
    /\ nextReg' = nextReg + 1
    /\ UNCHANGED <<users, events, nextUser, nextEvent, clock, wallet>>

\* get_event_registrations's count, lines 313-314
RegistrationCount(eid) == Cardinality({g \in registrations : g.event_id = eid})

\* get_event_registrations, lines 313-315
GetEventRegistrations(p, eid) ==
    /\ Ready(p)
    /\ Step(p, Respond([Idle EXCEPT !.op = "get_event_registrations", !.eid = eid],
                       200, RegistrationCount(eid)))
    /\ UNCHANGED <<users, events, registrations, nextUser, nextEvent, nextReg, clock, wallet>>

\* get_user_registrations, line 320: find the caller's registrations
GetUserRegistrationsFind(p, cred) ==
    /\ Ready(p)
    /\ LET r == [Idle EXCEPT !.op = "get_user_registrations", !.cred = cred]
           auth == require_auth(cred, clock)
       IN  Step(p, IF ~auth.ok THEN Respond(r, auth.status, auth.detail)
                   ELSE LET mine == {g \in registrations : g.user_id = auth.user_id}
                            ru == [r EXCEPT !.uid = auth.user_id, !.todo = mine]
                        IN  IF mine = {} THEN Respond(ru, 200, {})
                            ELSE Goto([ru EXCEPT !.out = {}], "get_user_registrations_event"))
    /\ UNCHANGED <<users, events, registrations, nextUser, nextEvent, nextReg, clock, wallet>>

\* get_user_registrations, lines 324-332: one find_one of a registration's
\* event per turn of the loop; the registration is kept when the event exists
GetUserRegistrationsEvent(p) ==
    /\ rq[p].pc = "get_user_registrations_event"
    /\ LET g == CHOOSE g \in rq[p].todo : \A h \in rq[p].todo : g.id <= h.id
           rest == rq[p].todo \ {g}
           out == IF g.event_id \in events THEN rq[p].out \cup {g} ELSE rq[p].out
           r == [rq[p] EXCEPT !.todo = rest, !.out = out]
       IN  Step(p, IF rest = {} THEN Respond(r, 200, out) ELSE r)
    /\ UNCHANGED <<users, events, registrations, nextUser, nextEvent, nextReg, clock, wallet>>

\* cancel_registration letting the caller whose token email is the
\* registration's cancel a registration that has no user_id
CancelFindByEmail(p, cred, rid) ==
    /\ Ready(p)
    /\ LET r == [Idle EXCEPT !.op = "cancel_registration", !.cred = cred, !.rid = rid]
           auth == require_auth(cred, clock)
       IN  Step(p, IF ~auth.ok THEN Respond(r, auth.status, auth.detail)
                   ELSE LET found == {g \in registrations : g.id = rid}
                            ru == [r EXCEPT !.uid = auth.user_id]
                        IN  IF found = {} THEN Respond(ru, 404, "Registration not found")
                            ELSE IF \E g \in found : /\ g.user_id # auth.user_id
                                                     /\ ~(g.user_id = NoUser /\ g.email = cred.email)
                            THEN Respond(ru, 403, "Not authorized to cancel this registration")
                            ELSE Goto(ru, "cancel_delete"))
    /\ UNCHANGED <<users, events, registrations, nextUser, nextEvent, nextReg, clock, wallet>>

\* cancel_registration without the ownership check of lines 341-343
CancelFindUnowned(p, cred, rid) ==
    /\ Ready(p)
    /\ LET r == [Idle EXCEPT !.op = "cancel_registration", !.cred = cred, !.rid = rid]
           auth == require_auth(cred, clock)
       IN  Step(p, IF ~auth.ok THEN Respond(r, auth.status, auth.detail)
                   ELSE LET found == {g \in registrations : g.id = rid}
                            ru == [r EXCEPT !.uid = auth.user_id]
                        IN  IF found = {} THEN Respond(ru, 404, "Registration not found")
                            ELSE Goto(ru, "cancel_delete"))
    /\ UNCHANGED <<users, events, registrations, nextUser, nextEvent, nextReg, clock, wallet>>

\* cancel_registration, lines 337-343: find_one by id, 404 when missing, 403
\* when its user_id is not the caller's
CancelFind(p, cred, rid) ==
    /\ Ready(p)
    /\ LET r == [Idle EXCEPT !.op = "cancel_registration", !.cred = cred, !.rid = rid]
           auth == require_auth(cred, clock)
       IN  Step(p, IF ~auth.ok THEN Respond(r, auth.status, auth.detail)
                   ELSE LET found == {g \in registrations : g.id = rid}
                            ru == [r EXCEPT !.uid = auth.user_id]
                        IN  IF found = {} THEN Respond(ru, 404, "Registration not found")
                            ELSE IF \E g \in found : g.user_id # auth.user_id
                            THEN Respond(ru, 403, "Not authorized to cancel this registration")
                            ELSE Goto(ru, "cancel_delete"))
    /\ UNCHANGED <<users, events, registrations, nextUser, nextEvent, nextReg, clock, wallet>>

\* cancel_registration, lines 345-346: delete_one by id
CancelDelete(p) ==
    /\ rq[p].pc = "cancel_delete"
    /\ registrations' = {g \in registrations : g.id # rq[p].rid}
    /\ Step(p, Respond(rq[p], 200, "Registration cancelled successfully"))
    /\ UNCHANGED <<users, events, nextUser, nextEvent, nextReg, clock, wallet>>

(**************************** time *****************************************)
MaxClock == MaxLifetimes * TokenLifetime + MaxTicks

\* time passes: d ticks
Advance(d) ==
    /\ clock + d <= MaxClock
    /\ d < TokenLifetime - 1 =>
         (clock + d) % TokenLifetime \in 1..MaxTicks \/ clock % TokenLifetime = TokenLifetime - 1
    /\ clock' = clock + d
    /\ UNCHANGED <<users, events, registrations, nextUser, nextEvent, nextReg, wallet, rq, last>>

(**************************** the system ***********************************)
Init ==
    /\ users = {}
    /\ events = {}
    /\ registrations = {}
    /\ nextUser = 0
    /\ nextEvent = 0
    /\ nextReg = 0
    /\ clock = 0
    /\ wallet = {}
    /\ rq = [p \in Procs |-> Idle]
    /\ last = Idle

EventIds == 1..MaxEvents
RegIds == 1..MaxRegs

\* the user auth routes, run by worker p on inputs of the given sets
UserRoutes(p, E, N, P, S) ==
    \/ \E e \in E, n \in N, w \in P : SignupFind(p, e, n, w)
    \/ \E s \in S : SignupInsert(p, s)
    \/ \E e \in E, w \in P : Login(p, e, w)
    \/ \E c \in Credentials : GetMe(p, c)
    \/ \E c \in Credentials, n \in N \cup {None}, e \in E \cup {None} :
          UpdateProfileStart(p, c, n, e)
    \/ UpdateProfileUpdate(p)
    \/ UpdateProfileRead(p)

\* the events and registration routes
EventRoutes(p, E, N) ==
    \/ CreateEvent(p)
    \/ \E i \in EventIds : GetEvent(p, i)
    \/ \E i \in EventIds : DeleteEventOne(p, i)
    \/ DeleteEventMany(p)
    \/ \E c \in Credentials, i \in EventIds, n \in N, e \in E : RegisterFindEvent(p, c, i, n, e)
    \/ RegisterFindDup(p)
    \/ RegisterInsert(p)
    \/ \E i \in EventIds : GetEventRegistrations(p, i)
    \/ \E c \in Credentials : GetUserRegistrationsFind(p, c)
    \/ GetUserRegistrationsEvent(p)
    \/ \E c \in Credentials, i \in RegIds : CancelFind(p, c, i)
    \/ CancelDelete(p)

\* time passes: a token lifetime, or (Fine) also a tick or a lifetime less a tick
Delays(fine) ==
    IF fine THEN {1, TokenLifetime - 1, TokenLifetime} ELSE {TokenLifetime}

\* The whole system: every worker runs every route on every input.
Next ==
    \/ \E p \in Procs : UserRoutes(p, Emails, Names, Passwords, Salts)
    \/ \E p \in Procs : EventRoutes(p, Emails, Names)
    \/ \E d \in Delays(TRUE) : Advance(d)

Spec == Init /\ [][Next]_vars

(* The specifications below are the system with its environment narrowed   *)
(* (fewer workers, routes or inputs), each small enough to explore fully.  *)

\* The user auth routes under concurrent requests.
NextUsers ==
    \E p \in Procs : UserRoutes(p, Emails, {"Ann"}, {"pw1"}, {"s1"})

SpecUsers == Init /\ [][NextUsers]_vars

\* The user auth routes, one request at a time, on every input.
NextAccounts ==
    UserRoutes(1, Emails, Names, Passwords, Salts)

SpecAccounts == Init /\ [][NextAccounts]_vars

\* The events and registration routes under concurrent requests of guests.
NextEvents ==
    \E p \in Procs :
        \/ CreateEvent(p)
        \/ \E i \in EventIds : GetEvent(p, i)
        \/ \E i \in EventIds : DeleteEventOne(p, i)
        \/ DeleteEventMany(p)
        \/ \E i \in EventIds, n \in {"Ann"}, e \in Emails :
              RegisterFindEvent(p, NoCred, i, n, e)
        \/ RegisterFindDup(p)
        \/ RegisterInsert(p)
        \/ \E i \in EventIds : GetEventRegistrations(p, i)

SpecEvents == Init /\ [][NextEvents]_vars

\* Signup and the events and registration routes, one request at a time, by
\* guests and by a signed-up user, whose token expires.
NextSeq ==
    \/ SignupFind(1, "a@x.com", "Ann", "pw1")
    \/ SignupInsert(1, "s1")
    \/ EventRoutes(1, {"a@x.com"}, {"Ann"})
    \/ \E d \in Delays(FALSE) : Advance(d)

SpecSeq == Init /\ [][NextSeq]_vars

\* Registering under any name, as a guest or as a signed-up user, one
\* request at a time.
NextRegs ==
    \/ SignupFind(1, "a@x.com", "Ann", "pw1")
    \/ SignupInsert(1, "s1")
    \/ CreateEvent(1)
    \/ \E c \in Credentials, i \in EventIds, n \in Names, e \in Emails :
          RegisterFindEvent(1, c, i, n, e)
    \/ RegisterFindDup(1)
    \/ RegisterInsert(1)
    \/ \E i \in EventIds : GetEventRegistrations(1, i)

SpecRegs == Init /\ [][NextRegs]_vars

\* Every route behind require_auth and what feeds them (signup for the
\* tokens, create_event and register_for_event for the registrations), one
\* request at a time.
NextAuth ==
    \/ SignupFind(1, "a@x.com", "Ann", "pw1")
    \/ SignupInsert(1, "s1")
    \/ \E c \in Credentials : GetMe(1, c)
    \/ \E c \in Credentials, n \in {"Bob", None}, e \in {"a@x.com", None} :
          UpdateProfileStart(1, c, n, e)
    \/ UpdateProfileUpdate(1)
    \/ UpdateProfileRead(1)
    \/ CreateEvent(1)
    \/ \E c \in Credentials, i \in EventIds : RegisterFindEvent(1, c, i, "Ann", "a@x.com")
    \/ RegisterFindDup(1)
    \/ RegisterInsert(1)
    \/ \E c \in Credentials : GetUserRegistrationsFind(1, c)
    \/ GetUserRegistrationsEvent(1)
    \/ \E c \in Credentials, i \in RegIds : CancelFind(1, c, i)
    \/ CancelDelete(1)
    \/ \E d \in Delays(FALSE) : Advance(d)

SpecAuth == Init /\ [][NextAuth]_vars

\* Two users and guests registering (under the first user's email) and
\* cancelling, and events deleted under them, one request at a time.
NextOwners ==
    \/ \E e \in Emails : SignupFind(1, e, "Ann", "pw1")
    \/ SignupInsert(1, "s1")
    \/ CreateEvent(1)
    \/ \E i \in EventIds : DeleteEventOne(1, i)
    \/ DeleteEventMany(1)
    \/ \E c \in Credentials, i \in EventIds :
          RegisterFindEvent(1, c, i, "Ann", "a@x.com")
    \/ RegisterFindDup(1)
    \/ RegisterInsert(1)
    \/ \E c \in Credentials, i \in RegIds : CancelFind(1, c, i)
    \/ CancelDelete(1)

SpecOwners == Init /\ [][NextOwners]_vars

\* Signup and update_profile under concurrent requests.
NextProfiles ==
    \E p \in Procs :
        \/ \E e \in Emails : SignupFind(p, e, "Ann", "pw1")
        \/ SignupInsert(p, "s1")
        \/ \E c \in Credentials, n \in {"Bob", None}, e \in {"b@x.com", None} :
              UpdateProfileStart(p, c, n, e)
        \/ UpdateProfileUpdate(p)
        \/ UpdateProfileRead(p)

SpecProfiles == Init /\ [][NextProfiles]_vars

\* Worker 1 signs up, creates events and registers as a guest or as the
\* user, under the user's email; both workers cancel registrations and
\* delete events, concurrently with it and with each other.
NextGuests ==
    \/ SignupFind(1, "a@x.com", "Ann", "pw1")
    \/ SignupInsert(1, "s1")
    \/ CreateEvent(1)
    \/ \E c \in Credentials, i \in EventIds :
          RegisterFindEvent(1, c, i, "Ann", "a@x.com")
    \/ RegisterFindDup(1)
    \/ RegisterInsert(1)
    \/ \E p \in Procs :
          \/ \E i \in EventIds : DeleteEventOne(p, i)
          \/ DeleteEventMany(p)
          \/ \E c \in Credentials, i \in RegIds : CancelFind(p, c, i)
          \/ CancelDelete(p)

SpecGuests == Init /\ [][NextGuests]_vars

\* Token issue (signup, login) and validation (get_me) as time passes in
\* ticks and in token lifetimes.
NextTokens ==
    \/ \E e \in Emails : SignupFind(1, e, "Ann", "pw1")
    \/ SignupInsert(1, "s1")
    \/ \E e \in Emails : Login(1, e, "pw1")
    \/ \E c \in Credentials : GetMe(1, c)
    \/ \E d \in Delays(TRUE) : Advance(d)

SpecTokens == Init /\ [][NextTokens]_vars

(***************************************************************************)
(*                              Properties                                 *)
(***************************************************************************)

\* C1: no two User documents of the users collection hold the same email, in
\* every state reachable by interleaved signup and update_profile requests.
UniqueUserEmails ==
    \A u \in users : \A v \in users : u.email = v.email => u = v

\* C2: no two Registration documents hold the same (event_id, email) pair, in
\* every state reachable by interleaved register_for_event requests.
UniqueRegistrationPairs ==
    \A g \in registrations : \A h \in registrations :
        (g.event_id = h.event_id /\ g.email = h.email) => g = h

\* an Event id that was drawn and is no longer in the events collection; ids
\* are fresh, so it is absent from then on
Deleted(eid) == eid \in 1..nextEvent /\ eid \notin events

Quiescent == \A p \in Procs : Ready(p)

\* C3: once delete_event(E) has answered (E is gone and its delete_many has
\* run) and no request is in flight, no Registration references E.
DeleteEventIsOneUnit ==
    \A eid \in EventIds :
        (Deleted(eid) /\ Quiescent) => \A g \in registrations : g.event_id # eid

\* In this step a request arrives at free worker p (and runs to its first
\* store round trip, or to its answer)
Arrives(p) == Ready(p) /\ (rq'[p] # rq[p] \/ (rq' = rq /\ last' # last))

\* the request of worker p after the step: in flight, or just answered
After(p) == IF rq'[p].pc # "done" THEN rq'[p] ELSE last'

\* In this step worker p's request in flight goes on (or is answered)
GoesOn(p) == ~Ready(p) /\ rq'[p] # rq[p]

\* what delete_event(eid) must leave of the registrations
WithoutEvent(eid) == {g \in registrations : g.event_id # eid}

\* C4, delete_event on a missing id: 404 and nothing changes
DeleteMissing(p) ==
    (Arrives(p) /\ After(p).op = "delete_event" /\ After(p).eid \notin events)
        => /\ After(p).pc = "done" /\ After(p).status = 404
           /\ UNCHANGED <<users, events, registrations>>

\* C4, delete_event on an existing event: the event goes first, the
\* registrations stay until the cascade ...
DeleteExistingFirst(p) ==
    (Arrives(p) /\ After(p).op = "delete_event" /\ After(p).eid \in events)
        => /\ After(p).pc # "done"
           /\ events' = events \ {After(p).eid}
           /\ UNCHANGED <<users, registrations>>

\* ... and the cascade removes exactly the event's registrations and answers 200
DeleteExistingThen(p) ==
    (GoesOn(p) /\ rq[p].op = "delete_event")
        => /\ After(p).pc = "done" /\ After(p).status = 200
           /\ registrations' = WithoutEvent(rq[p].eid)
           /\ rq[p].eid \notin events'
           /\ UNCHANGED <<users, events>>

\* C4, afterwards: a deleted event stays deleted and get_event on it is 404
DeletedForGood(p) ==
    /\ \A eid \in EventIds : Deleted(eid) => Deleted(eid)'
    /\ (Arrives(p) /\ After(p).op = "get_event" /\ Deleted(After(p).eid))
          => After(p).pc = "done" /\ After(p).status = 404

\* C4: with one request at a time, delete_event(E) on an existing event
\* returns 200 and leaves no event E and no registration of E, the other
\* events' registrations unchanged, and every later get_event(E) returns 404;
\* on a missing id it returns 404 and changes nothing.
DeleteEventCascades ==
    [][DeleteMissing(1) /\ DeleteExistingFirst(1) /\ DeleteExistingThen(1)
       /\ DeletedForGood(1)]_vars

\* C4's case: only guests registered (so nothing was cancelled), two
\* registrations were made, delete_event answered 200 and removed the one of
\* its event, and the other event's registration is still there.
DeleteEventCascadesWitness ==
    /\ last.op = "delete_event" /\ last.status = 200
    /\ nextUser = 0 /\ nextReg = 2
    /\ Cardinality(registrations) = 1
    /\ \A g \in registrations : g.event_id \in events /\ g.event_id # last.eid

\* a Registration with this (event_id, email) pair is stored
Registered(eid, email) ==
    \E g \in registrations : g.event_id = eid /\ g.email = email

\* C5, for the request of worker p: while it runs no registration is stored
\* or removed, it never reaches the insert, and its answer is 400
DuplicateRefused(p) ==
    ((Arrives(p) \/ GoesOn(p)) /\ After(p).op = "register"
        /\ After(p).eid \in events /\ Registered(After(p).eid, After(p).email))
        => /\ After(p).pc \in {"register_find_dup", "done"}
           /\ After(p).pc = "done" => After(p).status = 400
           /\ registrations' = registrations
           /\ \A eid \in EventIds : RegistrationCount(eid)' = RegistrationCount(eid)

\* C5: with one request at a time, register_for_event for an existing event
\* and an (event_id, email) pair that is already registered fails with 400,
\* whatever the name and the caller, and leaves the registrations (and so
\* get_event_registrations' count) unchanged.
DuplicateRegistrationRefused == [][DuplicateRefused(1)]_vars

\* C5's case: a signed-up user gets a 400 for a pair a guest stored under
\* another name, and that registration is still the only one
DuplicateRegistrationRefusedWitness ==
    /\ last.op = "register" /\ last.status = 400
    /\ \E g \in registrations :
          /\ g.event_id = last.eid /\ g.email = last.email
          /\ g.name # last.name
          /\ g.user_id = NoUser /\ last.uid # NoUser
    /\ Cardinality(registrations) = 1 /\ nextReg = 1

\* C6, for the request arriving at worker p
MissingEventRefused(p) ==
    (Arrives(p) /\ After(p).op = "register" /\ After(p).eid \notin events)
        => /\ After(p).pc = "done" /\ After(p).status = 404
           /\ registrations' = registrations

\* C6: register_for_event with an event_id no Event has fails with 404 and
\* stores no Registration, also when the (event_id, email) pair is already
\* registered: the event check comes before the duplicate check.
MissingEventRegistrationRefused == [][\A p \in Procs : MissingEventRefused(p)]_vars

\* C6's case: a 404 for a pair that a registration (left behind by a deleted
\* event) already holds
MissingEventRegistrationRefusedWitness ==
    /\ last.op = "register" /\ last.status = 404
    /\ last.eid \notin events
    /\ Registered(last.eid, last.email)

\* the users that login(email, password) may log in: those with exactly that
\* email whose stored hash verifies the password
LoginMatches(email, password) ==
    {u \in users : u.email = email /\ verify_password(password, u.password_hash)}

\* C7, for the login arriving at worker p
LoginIffVerified(p) ==
    (Arrives(p) /\ After(p).op = "login")
        => LET r == After(p)
               ok == LoginMatches(r.email, r.pw)
           IN  /\ r.pc = "done"
               /\ r.status = 200 <=> ok # {}
               /\ r.status = 200 =>
                    \E u \in ok : r.out = [id |-> u.id, email |-> u.email, name |-> u.name,
                                           token |-> create_token(u.id, u.email, clock)]
               /\ r.status # 200 => r.status = 401 /\ r.out = "Invalid credentials"
               /\ users' = users

\* C7: with one request at a time, login(email, password) returns 200 with
\* the user's id, email, name and a fresh token iff a user with exactly that
\* email exists and verify_password holds of its hash; otherwise it returns
\* the one 401 "Invalid credentials"; it never changes the users collection.
LoginSucceedsIffVerified == [][LoginIffVerified(1)]_vars

\* C7's case: after an email change the old email, still in the token the
\* client holds, no longer logs in (401), and some user's hash verifies the
\* password tried
LoginSucceedsIffVerifiedWitness ==
    /\ last.op = "login" /\ last.status = 401
    /\ \A u \in users : u.email # last.email
    /\ \E w \in wallet : w.tok.email = last.email
    /\ \E u \in users : verify_password(last.pw, u.password_hash)

\* the instant, in ticks, of the exp claim of a token issued at tick 'at':
\* at + 24h cut down to a whole second
ExpiryTick(at) == ((at + TokenLifetime) \div TicksPerSecond) * TicksPerSecond

Invalid(d) == ~d.ok /\ d.status = 401 /\ d.detail = "Invalid token"

Expired(d) == ~d.ok /\ d.status = 401 /\ d.detail = "Token has expired"

\* decode_token accepts w's token and returns the claims it was issued with
Accepted(w, d) ==
    /\ d.ok /\ d.user_id = w.tok.user_id /\ d.email = w.tok.email
    /\ \E u \in users : u.id = d.user_id /\ u.email = d.email

TokenWindow ==
    \A w \in wallet :
        /\ clock < ExpiryTick(w.at) => Accepted(w, decode_token(w.tok, clock))
        /\ clock >= ExpiryTick(w.at) => Expired(decode_token(w.tok, clock))
        /\ Invalid(decode_token(Tamper(w.tok), clock))

\* C8 amended, of a route behind require_auth: what get_me answers to a
\* token depends on the token and the time alone
TokenAloneDecides(p) ==
    (Arrives(p) /\ After(p).op = "get_me")
        => \A w \in wallet :
              /\ After(p).cred = w.tok =>
                    IF clock < ExpiryTick(w.at) THEN After(p).status = 200
                    ELSE After(p).status = 401 /\ After(p).out = "Token has expired"
              /\ After(p).cred = Tamper(w.tok) =>
                    After(p).status = 401 /\ After(p).out = "Invalid token"

RequiredAuthOps ==
    {"get_me", "update_profile", "get_user_registrations", "cancel_registration"}

\* the bearer credential is a token with the server's signature whose exp
\* is still ahead
ValidNow(cred) ==
    /\ cred # NoCred
    /\ cred.sig = Sign(cred.user_id, cred.email, cred.exp)
    /\ clock < cred.exp * TicksPerSecond

\* C9, for the request arriving at worker p
RejectedBeforeBody(p) ==
    (Arrives(p) /\ After(p).op \in RequiredAuthOps /\ ~ValidNow(After(p).cred))
        => /\ After(p).pc = "done" /\ After(p).status = 401
           /\ After(p).out \in {"Authentication required", "Invalid token",
                                "Token has expired"}
           /\ UNCHANGED <<users, events, registrations>>

\* C9: get_me, update_profile, get_user_registrations and cancel_registration
\* answer 401 to a request without bearer credential, with an invalid token
\* or with an expired token, before their body runs: the three collections
\* are unchanged and the answer carries no data.
UnauthenticatedRejected == [][RejectedBeforeBody(1)]_vars

\* C9's case: cancel_registration of the caller's own registration, and the
\* caller's token has expired: 401, and the registration is still there
UnauthenticatedRejectedWitness ==
    /\ last.op = "cancel_registration" /\ last.status = 401
    /\ last.out = "Token has expired"
    /\ \E g \in registrations : g.id = last.rid /\ g.user_id = last.cred.user_id

\* the identity register_for_event works with: the token's user_id when the
\* request carries a valid, unexpired token, none otherwise
IdentityOf(cred) == IF ValidNow(cred) THEN cred.user_id ELSE NoUser

\* C10, for the request of worker p: it is never refused for its credential,
\* it takes its identity from a valid token only, and the registration it
\* stores carries that identity
GuestOrTokenOwner(p) ==
    /\ (Arrives(p) /\ After(p).op = "register")
          => /\ After(p).status \in {0, 404}
             /\ After(p).uid = IdentityOf(After(p).cred)
    /\ (GoesOn(p) /\ rq[p].op = "register")
          => /\ After(p).status \in {0, 201, 400}
             /\ After(p).uid = rq[p].uid /\ After(p).cred = rq[p].cred
    /\ \A g \in registrations' \ registrations :
          /\ GoesOn(p) /\ rq[p].op = "register"
          /\ g.user_id = rq[p].uid
          /\ After(p).status = 201

\* C10: register_for_event never fails for an authentication reason (with
\* no credential, an invalid or an expired token it goes on as a guest), and
\* a Registration's user_id is the user_id claim of the valid, unexpired
\* token its request carried, and is absent when the request carried none.
RegistrationOwnerFromValidToken == [][GuestOrTokenOwner(1)]_vars

\* C10's case: a registration stored as a guest's for a request that carried
\* a token with a good signature, expired
RegistrationOwnerFromValidTokenWitness ==
    /\ last.op = "register" /\ last.status = 201
    /\ last.cred # NoCred
    /\ last.cred.sig = Sign(last.cred.user_id, last.cred.email, last.cred.exp)
    /\ \E g \in registrations : g.id = last.rid /\ g.user_id = NoUser
    /\ \E g \in registrations : g.user_id # NoUser

\* what find_one({"id": rid}) of the registrations finds
FoundById(rid) == {g \in registrations : g.id = rid}

\* the registration id was issued and its registration is gone
Cancelled(rid) == rid <= nextReg /\ FoundById(rid) = {}

\* C11, for the cancel_registration of an authenticated caller arriving at
\* worker p: 404 for a missing id whoever calls, 403 for another's
\* registration, on to the delete for the caller's own; nothing removed yet
CancelChecked(p) ==
    (Arrives(p) /\ After(p).op = "cancel_registration" /\ ValidNow(After(p).cred))
        => LET r == After(p)
               found == FoundById(r.rid)
           IN  /\ registrations' = registrations
               /\ IF found = {} THEN r.pc = "done" /\ r.status = 404
                  ELSE IF \E g \in found : g.user_id # r.cred.user_id
                  THEN r.pc = "done" /\ r.status = 403
                  ELSE r.pc = "cancel_delete"

\* C11, the owner's cancel_registration going on: 200, and that one
\* registration and no other is removed
CancelRemovesOne(p) ==
    (GoesOn(p) /\ rq[p].op = "cancel_registration")
        => /\ After(p).pc = "done" /\ After(p).status = 200
           /\ Cardinality(FoundById(rq[p].rid)) = 1
           /\ \A g \in FoundById(rq[p].rid) : g.user_id = rq[p].cred.user_id
           /\ registrations' = registrations \ FoundById(rq[p].rid)
           /\ Cancelled(rq[p].rid)'

\* C11, afterwards: a registration id that is gone stays gone
CancelledForGood == \A rid \in RegIds : Cancelled(rid) => Cancelled(rid)'

\* C11: with one request at a time, cancel_registration(id) by an
\* authenticated caller answers 404 when no registration has the id (before
\* any ownership check), 403 when the registration's user_id is not the
\* caller's, leaving it in place, and 200 for its owner, removing that
\* registration and no other; the id is never found again, so a second
\* cancel of it answers 404.
CancelOnlyByOwner ==
    [][CancelChecked(1) /\ CancelRemovesOne(1) /\ CancelledForGood]_vars

\* C11's case: a second cancel of an id its owner cancelled answers 404
\* (every event ever created is still there, so no cascade removed it), and
\* the other user's registration is still in place
CancelOnlyByOwnerWitness ==
    /\ last.op = "cancel_registration" /\ last.status = 404
    /\ Cancelled(last.rid)
    /\ Cardinality(events) = nextEvent
    /\ nextReg = 2 /\ Cardinality(registrations) = 1
    /\ \A g \in registrations : g.user_id \notin {NoUser, last.uid}

\* C12, the frame of a step of update_profile for the caller with id uid and
\* the patch (name, email): the same users, each with its id, password_hash
\* and created_at; every user but the caller's unchanged; the caller's name
\* and email either as they were or, for a field the patch holds, the
\* patch's
PatchFrame(uid, name, email) ==
    /\ {v.id : v \in users'} = {u.id : u \in users}
    /\ Cardinality(users') = Cardinality(users)
    /\ \A u \in users : \E v \in users' :
          /\ v.id = u.id
          /\ v.password_hash = u.password_hash /\ v.created_at = u.created_at
          /\ u.id # uid => v = u
          /\ v.name = u.name \/ (name # None /\ v.name = name)
          /\ v.email = u.email \/ (email # None /\ v.email = email)

\* C12, when update_profile writes: every field of the patch is written
PatchApplied(uid, name, email) ==
    users' # users =>
        \A v \in users' : v.id = uid =>
            /\ name # None => v.name = name
            /\ email # None => v.email = email

\* C12, for the update_profile of an authenticated caller arriving at
\* worker p: the two refusals, which change no user, and the frame
PatchChecked(p) ==
    (Arrives(p) /\ After(p).op = "update_profile" /\ ValidNow(After(p).cred))
        => LET r == After(p)
               uid == r.cred.user_id
           IN  /\ (r.name = None /\ r.email = None)
                     => /\ r.pc = "done" /\ r.status = 400
                        /\ r.out = "No data to update"
                        /\ users' = users
               /\ (r.email # None /\ \E u \in users : u.email = r.email /\ u.id # uid)
                     => /\ r.pc = "done" /\ r.status = 400
                        /\ users' = users
               /\ PatchFrame(uid, r.name, r.email)
               /\ PatchApplied(uid, r.name, r.email)

\* C12, for the update_profile of worker p going on
PatchGoesOn(p) ==
    (GoesOn(p) /\ rq[p].op = "update_profile")
        => /\ rq[p].uid = rq[p].cred.user_id
           /\ After(p).status \in {0, 200}
           /\ PatchFrame(rq[p].uid, rq[p].name, rq[p].email)
           /\ PatchApplied(rq[p].uid, rq[p].name, rq[p].email)

\* C12: update_profile changes only the name and email the patch holds, and
\* only of the user whose id is the caller's token's user_id; password_hash,
\* id and created_at of that user and every other user stay as they are. An
\* empty patch is refused with 400 'No data to update', a patch email owned
\* by another user with 400, and neither changes any user.
ProfilePatchOnly == [][\A p \in Procs : PatchChecked(p) /\ PatchGoesOn(p)]_vars

\* C12's case: a patch of the name alone was applied (200) to the caller's
\* user, whose email is still the token's, and the other user keeps its name
ProfilePatchOnlyWitness ==
    /\ last.op = "update_profile" /\ last.status = 200
    /\ last.name = "Bob" /\ last.email = None
    /\ \E u \in users : u.id = last.uid /\ u.name = "Bob" /\ u.email = last.cred.email
    /\ \E u \in users : u.id # last.uid /\ u.name = "Ann"

\* the registrations stored without a user_id
GuestRegistrations == {g \in registrations : g.user_id = NoUser}

\* C13, for the cancel_registration of an authenticated caller arriving at
\* worker p for a guest registration: 403, and nothing is removed
GuestCancelRefused(p) ==
    (Arrives(p) /\ After(p).op = "cancel_registration" /\ ValidNow(After(p).cred)
        /\ \E g \in GuestRegistrations : g.id = After(p).rid)
        => /\ After(p).pc = "done" /\ After(p).status = 403
           /\ registrations' = registrations

\* C13: a guest registration that goes is removed by the cascade of a
\* delete_event of its event
GuestRemovedByCascade ==
    \A g \in GuestRegistrations \ registrations' :
        \E p \in Procs : /\ GoesOn(p) /\ rq[p].op = "delete_event"
                         /\ rq[p].eid = g.event_id

\* C13: cancel_registration of a registration without user_id answers 403 to
\* every authenticated caller, also to the user whose account email is the
\* registration's, and removes nothing; a guest registration is removed
\* only by delete_event of its event.
GuestRegistrationNotCancellable ==
    [][(\A p \in Procs : GuestCancelRefused(p)) /\ GuestRemovedByCascade]_vars

\* C13's case: the user whose account email is the guest registration's
\* asked to cancel it, got 403, and it is still stored
GuestRegistrationNotCancellableWitness ==
    /\ last.op = "cancel_registration" /\ last.status = 403
    /\ \E g \in GuestRegistrations :
          /\ g.id = last.rid
          /\ \E u \in users : u.id = last.uid /\ u.email = g.email

====
